---------------------------- MODULE Spec2Model ----------------------------
(***************************************************************************)
(* Model of the graph builders and of the record normaliser of             *)
(* src/wikipedia_scraping.py (Python 2, NetworkX 1.x).                      *)
(*                                                                         *)
(* A NetworkX DiGraph is the record [node, adj]: node maps every node to   *)
(* its attribute dictionary, adj maps every edge <<u, v>> to its data      *)
(* dictionary.  Dictionaries are functions from keys to values.            *)
(* Every builder is a little state machine: call names the function that   *)
(* runs, pc its position, and the input variables hold its arguments.      *)
(***************************************************************************)
EXTENDS Integers, Sequences, FiniteSets, TLC

VARIABLES
    call,                  \* the function being executed
    pc,                    \* its control position
    alter_revisions_dict,  \* editor -> list of the titles of the editor's revisions
    threshold,             \* the threshold argument of the shared-editing builders
    hyperlink_dict,        \* page -> list of the titles the page links to
    categories_dict,       \* page -> list of the page's categories
    revisions,             \* the list of revision dictionaries passed in
    min_date,              \* the first day of the window of a counter
    max_date,              \* the last day of the window of a counter
    response,              \* the batches the API returns to a fetch function
    argv,                  \* the command line of pageview-scraper.py
    locals,                \* the local variables main has assigned
    start_dt,              \* the start of the range of get_dumps
    end_dt,                \* the end of the range of get_dumps
    index,                 \* the month get_dumps is at
    disk,                  \* the files under the data directory and their content
    handled,               \* the links the running get_dumps has gone through
    net,                   \* the DiGraph under construction (net, g, hyperlink_g, g_categories)
    iter,                  \* the items the running iterator still has to yield
    result                 \* the list adjacency_calcs returns, or the exception it raises

\* The state of pageview-scraper.py.
scraper == <<argv, locals, start_dt, end_dt, index, disk, handled>>

\* The arguments no graph builder writes.
args == <<alter_revisions_dict, threshold, hyperlink_dict, categories_dict,
          revisions, min_date, max_date, response, scraper>>

vars == <<call, pc, args, net, iter, result>>

----------------------------------------------------------------------------
(* Bounds of the model and its universes.                                  *)

MaxRevs == 5
MaxThreshold == 2

Editors == {"u1", "u2"}
Titles == {"X", "Y", "Z"}
Thresholds == (0 - 1) .. MaxThreshold

SeqsUpTo(S, n) == UNION {[1 .. k -> S] : k \in 0 .. n}

EmptyDict == [x \in {} |-> x]

\* pageview-scraper.py is not running.
ScraperIdle ==
    /\ argv = <<>>
    /\ locals = EmptyDict
    /\ start_dt = <<>>
    /\ end_dt = <<>>
    /\ index = <<>>
    /\ disk = EmptyDict
    /\ handled = EmptyDict

----------------------------------------------------------------------------
(* NetworkX 1.x DiGraph operations, as the builders call them.             *)

EmptyGraph == [node |-> EmptyDict, adj |-> EmptyDict]

Nodes(G) == DOMAIN G.node
Edges(G) == DOMAIN G.adj

\* dict.update: the keys of new override those of old.
Update(old, new) == new @@ old

add_node(G, n, attr) ==
    [G EXCEPT !.node = IF n \in DOMAIN @
                         THEN [@ EXCEPT ![n] = Update(@, attr)]
                         ELSE @ @@ (n :> attr)]

has_edge(G, u, v) == <<u, v>> \in DOMAIN G.adj

add_edge(G, u, v, attr) ==
    LET G1 == add_node(add_node(G, u, EmptyDict), v, EmptyDict)
        old == IF has_edge(G, u, v) THEN G.adj[<<u, v>>] ELSE EmptyDict
    IN  [G1 EXCEPT !.adj = (<<u, v>> :> Update(old, attr)) @@ @]

MutantRemoveEdge(G, u, v) ==
    [G EXCEPT !.adj = [e \in {d \in DOMAIN @ : d[1] # u} |-> @[e]]]

remove_edge(G, u, v) ==
    [G EXCEPT !.adj = [e \in DOMAIN @ \ {<<u, v>>} |-> @[e]]]

remove_node(G, n) ==
    [node |-> [m \in DOMAIN G.node \ {n} |-> G.node[m]],
     adj  |-> [e \in {d \in DOMAIN G.adj : d[1] # n /\ d[2] # n} |-> G.adj[e]]]

\* DiGraph.degree: in-degree plus out-degree, a self-loop counts twice.
degree(G, n) ==
    Cardinality({e \in Edges(G) : e[1] = n}) + Cardinality({e \in Edges(G) : e[2] = n})

MutantIsolates(G) == {n \in Nodes(G) : Cardinality({e \in Edges(G) : e[1] = n}) = 0}

\* nx.isolates (1.x): the list of the nodes of degree 0.
isolates(G) == {n \in Nodes(G) : degree(G, n) = 0}

\* The if has_edge / weight += 1 / else add_edge(weight=1) idiom.
MutantIncrementWeight(G, u, v) ==
    add_edge(G, u, v, [weight |-> 1])

IncrementWeight(G, u, v) ==
    IF has_edge(G, u, v)
      THEN [G EXCEPT !.adj[<<u, v>>].weight = @ + 1]
      ELSE add_edge(G, u, v, [weight |-> 1])

----------------------------------------------------------------------------
(* make_shared_user_editing_network: the accumulation loop.                *)

\* for num, article in enumerate(articles[:-1]): link article to articles[num+1]
RECURSIVE WalkArticles(_, _, _)
WalkArticles(G, articles, num) ==
    IF num >= Len(articles)
      THEN G
      ELSE WalkArticles(IncrementWeight(G, articles[num], articles[num + 1]),
                        articles, num + 1)

\* for editor, revisions in alter_revisions_dict.iteritems()
RECURSIVE WalkEditors(_, _, _)
WalkEditors(G, dict, todo) ==
    IF todo = {}
      THEN G
      ELSE LET editor == CHOOSE e \in todo : TRUE
           IN  WalkEditors(WalkArticles(G, dict[editor], 1), dict, todo \ {editor})

SharedUserAccumulate ==
    /\ call = "make_shared_user_editing_network"
    /\ pc = "accumulate"
    /\ net' = WalkEditors(EmptyGraph, alter_revisions_dict, DOMAIN alter_revisions_dict)
    /\ pc' = "accumulated"
    /\ UNCHANGED <<call, args, iter, result>>

----------------------------------------------------------------------------
(* make_shared_page_editing_network: invert_alter_revisions and the        *)
(* accumulation loop over the inverted dictionary.                         *)

Count(seq, x) == Cardinality({i \in DOMAIN seq : seq[i] = x})

\* alter_pages[user] = dict(Counter(titles)); inverted[article][user] = count
invert_alter_revisions(dict) ==
    LET articles == UNION {{dict[u][i] : i \in DOMAIN dict[u]} : u \in DOMAIN dict}
    IN  [article \in articles |->
            [user \in {u \in DOMAIN dict : Count(dict[u], article) > 0} |->
                Count(dict[user], article)]]

\* The lists a dictionary's keys() can return: Python 2 fixes no order.
KeyLists(S) ==
    {l \in [1 .. Cardinality(S) -> S] : \A i, j \in DOMAIN l : l[i] = l[j] => i = j}

\* for num, user in enumerate(user_list[:-1]): link user to user_list[num+1]
RECURSIVE WalkUserList(_, _, _)
WalkUserList(G, user_list, num) ==
    IF num >= Len(user_list)
      THEN G
      ELSE WalkUserList(IncrementWeight(G, user_list[num], user_list[num + 1]),
                        user_list, num + 1)

\* for page, users in inverted_alter_revisions_dict.iteritems()
RECURSIVE WalkPages(_, _, _)
WalkPages(G, keys, todo) ==
    IF todo = {}
      THEN G
      ELSE LET page == CHOOSE p \in todo : TRUE
           IN  WalkPages(WalkUserList(G, keys[page], 1), keys, todo \ {page})

SharedPageAccumulate ==
    /\ call = "make_shared_page_editing_network"
    /\ pc = "accumulate"
    /\ LET inverted == invert_alter_revisions(alter_revisions_dict)
       IN  \E keys \in [DOMAIN inverted -> UNION {KeyLists(DOMAIN inverted[p]) : p \in DOMAIN inverted}] :
             /\ \A p \in DOMAIN inverted : keys[p] \in KeyLists(DOMAIN inverted[p])
             /\ net' = WalkPages(EmptyGraph, keys, DOMAIN inverted)
    /\ pc' = "accumulated"
    /\ UNCHANGED <<call, args, iter, result>>

----------------------------------------------------------------------------
(* The cleanup passes of the shared-editing builders.  In Python 2 the     *)
(* edges_iter of NetworkX 1.x walks adj.items() and nbrs.items(), which    *)
(* are lists copied from the dictionaries: iter holds the items not yet    *)
(* yielded, and removing the edge just yielded does not disturb them.      *)

SharedBuilders == {"make_shared_user_editing_network", "make_shared_page_editing_network"}

MutantBelowThreshold(d, t) == d.weight < t - 1

MutantAtOrBelowThreshold(d, t) == d.weight <= t

\* if d['weight'] < threshold
BelowThreshold(d, t) == d.weight < t

\* for i, j, d in net.edges_iter(data=True): the iterator is created
ThresholdBegin ==
    /\ call \in SharedBuilders
    /\ pc = "accumulated"
    /\ pc' = "threshold"
    /\ iter' = Edges(net)
    /\ UNCHANGED <<call, args, net, result>>

ThresholdStep ==
    /\ call \in SharedBuilders
    /\ pc = "threshold"
    /\ \E e \in iter :
         /\ iter' = iter \ {e}
         /\ net' = IF has_edge(net, e[1], e[2]) /\ BelowThreshold(net.adj[e], threshold)
                     THEN remove_edge(net, e[1], e[2])
                     ELSE net
    /\ UNCHANGED <<call, pc, args, result>>

ThresholdEnd ==
    /\ call \in SharedBuilders
    /\ pc = "threshold"
    /\ iter = {}
    /\ pc' = "selfloops"
    /\ iter' = Edges(net)
    /\ UNCHANGED <<call, args, net, result>>

SelfLoopStep ==
    /\ call \in SharedBuilders
    /\ pc = "selfloops"
    /\ \E e \in iter :
         /\ iter' = iter \ {e}
         /\ net' = IF e[1] = e[2] THEN remove_edge(net, e[1], e[2]) ELSE net
    /\ UNCHANGED <<call, pc, args, result>>

SelfLoopEnd ==
    /\ call \in SharedBuilders
    /\ pc = "selfloops"
    /\ iter = {}
    /\ pc' = "isolates"
    /\ iter' = isolates(net)
    /\ UNCHANGED <<call, args, net, result>>

IsolateStep ==
    /\ call \in SharedBuilders
    /\ pc = "isolates"
    /\ \E n \in iter :
         /\ iter' = iter \ {n}
         /\ net' = remove_node(net, n)
    /\ UNCHANGED <<call, pc, args, result>>

Return ==
    /\ call \in SharedBuilders
    /\ pc = "isolates"
    /\ iter = {}
    /\ pc' = "done"
    /\ UNCHANGED <<call, args, net, iter, result>>

----------------------------------------------------------------------------

RevisionDicts ==
    {d \in [Editors -> SeqsUpTo(Titles, MaxRevs)] :
        Len(d["u1"]) + Len(d["u2"]) <= MaxRevs}

InitShared ==
    /\ call \in SharedBuilders
    /\ pc = "accumulate"
    /\ alter_revisions_dict \in RevisionDicts
    /\ threshold \in Thresholds
    /\ hyperlink_dict = EmptyDict
    /\ categories_dict = EmptyDict
    /\ revisions = <<>>
    /\ min_date = 0
    /\ max_date = 0
    /\ response = <<>>
    /\ ScraperIdle
    /\ net = EmptyGraph
    /\ iter = {}
    /\ result = <<>>

NextShared ==
    \/ SharedUserAccumulate
    \/ SharedPageAccumulate
    \/ ThresholdBegin
    \/ ThresholdStep
    \/ ThresholdEnd
    \/ SelfLoopStep
    \/ SelfLoopEnd
    \/ IsolateStep
    \/ Return

SpecShared == InitShared /\ [][NextShared]_vars

----------------------------------------------------------------------------
(* Properties of the shared-editing builders.                              *)

Returned == pc = "done"

\* The number of positions, over all editors, where title a is followed by title b.
PairCount(dict, a, b) ==
    LET hits(u) == {i \in 1 .. Len(dict[u]) - 1 : dict[u][i] = a /\ dict[u][i + 1] = b}
        RECURSIVE Sum(_)
        Sum(us) == IF us = {} THEN 0
                   ELSE LET u == CHOOSE x \in us : TRUE
                        IN  Cardinality(hits(u)) + Sum(us \ {u})
    IN  Sum(DOMAIN dict)

\* C1: the graph returned by make_shared_user_editing_network and by
\* make_shared_page_editing_network has no edge of weight below the
\* threshold, no edge from a node to itself, and no node of degree 0.
C1_SharedGraphClean ==
    (call \in SharedBuilders /\ Returned) =>
        /\ \A e \in Edges(net) : net.adj[e].weight >= threshold /\ e[1] # e[2]
        /\ \A n \in Nodes(net) : degree(net, n) >= 1

\* A call has returned a graph that is not empty, after an edge below the
\* threshold or a self-loop was dropped and a node was removed as an isolate.
C1_Witness ==
    /\ call = "make_shared_user_editing_network"
    /\ Returned
    /\ Edges(net) # {}
    /\ \E a, b \in Titles :
         /\ PairCount(alter_revisions_dict, a, b) > 0
         /\ a = b \/ PairCount(alter_revisions_dict, a, b) < threshold
         /\ a \notin Nodes(net)

\* C2: in make_shared_user_editing_network an edge a -> b between distinct
\* titles that accumulated weight w >= 1 is in the returned graph exactly
\* when w >= threshold, and then still carries weight w.
C2_SurvivesIffAtLeastThreshold ==
    (call = "make_shared_user_editing_network" /\ Returned) =>
        \A a, b \in Titles :
            LET w == PairCount(alter_revisions_dict, a, b)
            IN  (a # b /\ w >= 1) =>
                    /\ has_edge(net, a, b) <=> w >= threshold
                    /\ has_edge(net, a, b) => net.adj[<<a, b>>].weight = w

\* One edge of weight exactly the threshold kept, one edge below it dropped.
C2_Witness ==
    /\ call = "make_shared_user_editing_network"
    /\ Returned
    /\ \E a, b, c, d \in Titles :
         /\ a # b /\ c # d
         /\ PairCount(alter_revisions_dict, a, b) = threshold
         /\ has_edge(net, a, b)
         /\ PairCount(alter_revisions_dict, c, d) >= 1
         /\ ~has_edge(net, c, d)

ExampleDict == [u1 |-> <<"X", "Y">>, u2 |-> <<"Y", "Z", "Y">>]

\* C3: before cleanup the weight of a -> b is the number of positions, over
\* all editors, where a is directly followed by b (and there is no other
\* edge); {u1: [X, Y], u2: [Y, Z, Y]} returns X -> Y, Y -> Z, Z -> Y of weight 1
\* at threshold 1 and the empty graph at threshold 2.
C3_AccumulatedWeights ==
    (call = "make_shared_user_editing_network") =>
        /\ pc = "accumulated" =>
              \A a, b \in Titles :
                  /\ has_edge(net, a, b) <=> PairCount(alter_revisions_dict, a, b) > 0
                  /\ has_edge(net, a, b) =>
                        net.adj[<<a, b>>].weight = PairCount(alter_revisions_dict, a, b)
        /\ (Returned /\ alter_revisions_dict = ExampleDict /\ threshold = 1) =>
              /\ Edges(net) = {<<"X", "Y">>, <<"Y", "Z">>, <<"Z", "Y">>}
              /\ \A e \in Edges(net) : net.adj[e].weight = 1
        /\ (Returned /\ alter_revisions_dict = ExampleDict /\ threshold = 2) =>
              /\ Edges(net) = {}
              /\ Nodes(net) = {}

\* Accumulation is over: two editors made the same move, so that an edge has
\* weight 2, and one editor edited the same title twice in a row.
C3_Witness ==
    /\ call = "make_shared_user_editing_network"
    /\ pc = "accumulated"
    /\ \E e \in Edges(net) : net.adj[e].weight >= 2 /\ e[1] # e[2]
    /\ \E e \in Edges(net) : e[1] = e[2]
    /\ \A u \in Editors : Len(alter_revisions_dict[u]) >= 2

----------------------------------------------------------------------------
(* make_hyperlink_network.                                                 *)

MaxLinks == 2

PageTitles == {"A", "B", "C"}

MutantIsAlter(link, dict) == TRUE

\* if link in hyperlink_dict.keys()
IsAlter(link, dict) == link \in DOMAIN dict

\* for link in links: add the edge page -> link when link is a key
RECURSIVE WalkLinks(_, _, _, _, _)
WalkLinks(G, dict, page, links, num) ==
    IF num > Len(links)
      THEN G
      ELSE WalkLinks(IF IsAlter(links[num], dict)
                       THEN add_edge(G, page, links[num], EmptyDict)
                       ELSE G,
                     dict, page, links, num + 1)

\* for page, links in hyperlink_dict.iteritems()
RECURSIVE WalkHyperlinks(_, _, _)
WalkHyperlinks(G, dict, todo) ==
    IF todo = {}
      THEN G
      ELSE LET page == CHOOSE p \in todo : TRUE
           IN  WalkHyperlinks(WalkLinks(G, dict, page, dict[page], 1), dict, todo \ {page})

make_hyperlink_network ==
    /\ call = "make_hyperlink_network"
    /\ pc = "start"
    /\ net' = WalkHyperlinks(EmptyGraph, hyperlink_dict, DOMAIN hyperlink_dict)
    /\ pc' = "done"
    /\ UNCHANGED <<call, args, iter, result>>

\* The dictionaries from some of the keys to lists of at most n values.
ListDicts(keys, values, n) ==
    UNION {[K -> SeqsUpTo(values, n)] : K \in SUBSET keys}

InitHyperlink ==
    /\ call = "make_hyperlink_network"
    /\ pc = "start"
    /\ alter_revisions_dict = EmptyDict
    /\ threshold = 0
    /\ hyperlink_dict \in ListDicts(PageTitles, PageTitles, MaxLinks)
    /\ categories_dict = EmptyDict
    /\ revisions = <<>>
    /\ min_date = 0
    /\ max_date = 0
    /\ response = <<>>
    /\ ScraperIdle
    /\ net = EmptyGraph
    /\ iter = {}
    /\ result = <<>>

NextHyperlink == make_hyperlink_network

SpecHyperlink == InitHyperlink /\ [][NextHyperlink]_vars

Links(dict, page) == {dict[page][i] : i \in DOMAIN dict[page]}

\* C4: the edges of the graph make_hyperlink_network returns are exactly the
\* pairs (page, link) with link in hyperlink_dict[page] and link a key of
\* hyperlink_dict, and every node is a key; {A: [B, C], B: [A]} gives
\* A -> B and B -> A and not A -> C.
C4_HyperlinkEdges ==
    (call = "make_hyperlink_network" /\ Returned) =>
        /\ Edges(net) = {e \in (DOMAIN hyperlink_dict) \X (DOMAIN hyperlink_dict) :
                            e[2] \in Links(hyperlink_dict, e[1])}
        /\ \A e \in Edges(net) : e[2] \in DOMAIN hyperlink_dict
        /\ Nodes(net) \subseteq DOMAIN hyperlink_dict
        /\ hyperlink_dict = [A |-> <<"B", "C">>, B |-> <<"A">>] =>
              Edges(net) = {<<"A", "B">>, <<"B", "A">>}

\* The network of {A: [B, C], B: [A]} has been returned.
C4_Witness ==
    /\ call = "make_hyperlink_network"
    /\ Returned
    /\ hyperlink_dict = [A |-> <<"B", "C">>, B |-> <<"A">>]
    /\ has_edge(net, "A", "B")

----------------------------------------------------------------------------
(* make_category_network.  The pages are visited in the order iteritems()  *)
(* yields them, which Python 2 does not fix; iter holds the pages left.    *)

MaxCategories == 2

CategoryPages == {"X", "Y", "Z"}
CategoryNames == {"X", "K"}

\* add_node(page, node_type='page'); add_node(category, node_type='category');
\* add_edge(page, category)
TagAndLink(G, page, category) ==
    add_edge(add_node(add_node(G, page, [node_type |-> "page"]),
                      category, [node_type |-> "category"]),
             page, category, EmptyDict)

\* for category in categories
RECURSIVE WalkCategories(_, _, _, _)
WalkCategories(G, page, categories, num) ==
    IF num > Len(categories)
      THEN G
      ELSE WalkCategories(TagAndLink(G, page, categories[num]), page, categories, num + 1)

CategoryBegin ==
    /\ call = "make_category_network"
    /\ pc = "start"
    /\ net' = EmptyGraph
    /\ iter' = DOMAIN categories_dict
    /\ pc' = "pages"
    /\ UNCHANGED <<call, args, result>>

CategoryStep ==
    /\ call = "make_category_network"
    /\ pc = "pages"
    /\ \E page \in iter :
         /\ iter' = iter \ {page}
         /\ net' = WalkCategories(net, page, categories_dict[page], 1)
    /\ UNCHANGED <<call, pc, args, result>>

CategoryReturn ==
    /\ call = "make_category_network"
    /\ pc = "pages"
    /\ iter = {}
    /\ pc' = "done"
    /\ UNCHANGED <<call, args, net, iter, result>>

InitCategory ==
    /\ call = "make_category_network"
    /\ pc = "start"
    /\ alter_revisions_dict = EmptyDict
    /\ threshold = 0
    /\ hyperlink_dict = EmptyDict
    /\ categories_dict \in ListDicts(CategoryPages, CategoryNames, MaxCategories)
    /\ revisions = <<>>
    /\ min_date = 0
    /\ max_date = 0
    /\ response = <<>>
    /\ ScraperIdle
    /\ net = EmptyGraph
    /\ iter = {}
    /\ result = <<>>

NextCategory ==
    \/ CategoryBegin
    \/ CategoryStep
    \/ CategoryReturn

SpecCategory == InitCategory /\ [][NextCategory]_vars

Memberships(dict) ==
    {e \in (DOMAIN dict) \X CategoryNames : e[2] \in Links(dict, e[1])}

\* C7: make_category_network returns a bipartite graph: an edge
\* page -> category for every membership of the input and no other edge,
\* a node_type on every node, and every edge from a node of node_type
\* 'page' to a node of node_type 'category', also when a title is both a
\* page key and a category name.
C7_CategoryBipartite ==
    (call = "make_category_network" /\ Returned) =>
        /\ Edges(net) = Memberships(categories_dict)
        /\ \A n \in Nodes(net) : "node_type" \in DOMAIN net.node[n]
        /\ \A e \in Edges(net) :
              /\ net.node[e[1]].node_type = "page"
              /\ net.node[e[2]].node_type = "category"

----------------------------------------------------------------------------
(* make_article_trajectory and make_editor_trajectory.                     *)

MaxTrajectory == 3
MaxTime == 3

Users == {"a", "b"}
Pages == {"P", "Q"}

\* Python's order of tuples: by the first component that differs.
RECURSIVE TupleLess(_, _)
TupleLess(s, t) ==
    /\ s # <<>>
    /\ \/ s[1] < t[1]
       \/ s[1] = t[1] /\ TupleLess(Tail(s), Tail(t))

\* itemgetter(*fields) applied to a revision (a lambda reading one field gives
\* the tuple of one component, which sorts alike).
ItemGetter(fields, rev) == [i \in DOMAIN fields |-> rev[fields[i]]]

\* sorted(revisions, key=...): Python's sort is stable, so a revision is put
\* behind the sorted revisions whose key is not greater.
RECURSIVE Sorted(_, _)
Sorted(list, fields) ==
    IF list = <<>>
      THEN <<>>
      ELSE LET n == Len(list)
               front == Sorted(SubSeq(list, 1, n - 1), fields)
               last == ItemGetter(fields, list[n])
               k == Cardinality({i \in DOMAIN front :
                                    ~TupleLess(last, ItemGetter(fields, front[i]))})
           IN  SubSeq(front, 1, k) \o <<list[n]>> \o SubSeq(front, k + 1, Len(front))

\* edge = (rev['user'], revisions[num+1]['user']) for num, rev in
\* enumerate(sorted_revisions[:-1])
RECURSIVE WalkArticleTrajectory(_, _, _, _)
WalkArticleTrajectory(G, sorted_revisions, revs, num) ==
    IF num >= Len(sorted_revisions)
      THEN G
      ELSE WalkArticleTrajectory(
               IncrementWeight(G, sorted_revisions[num].user, revs[num + 1].user),
               sorted_revisions, revs, num + 1)

make_article_trajectory ==
    /\ call = "make_article_trajectory"
    /\ pc = "start"
    /\ net' = WalkArticleTrajectory(EmptyGraph, Sorted(revisions, <<"timestamp">>), revisions, 1)
    /\ pc' = "done"
    /\ UNCHANGED <<call, args, iter, result>>

\* edge = (rev['title'], revisions[num+1]['user']) for num, rev in
\* enumerate(sorted_revisions[:-1])
RECURSIVE WalkEditorTrajectory(_, _, _, _)
WalkEditorTrajectory(G, sorted_revisions, revs, num) ==
    IF num >= Len(sorted_revisions)
      THEN G
      ELSE WalkEditorTrajectory(
               IncrementWeight(G, sorted_revisions[num].title, revs[num + 1].user),
               sorted_revisions, revs, num + 1)

make_editor_trajectory ==
    /\ call = "make_editor_trajectory"
    /\ pc = "start"
    /\ net' = WalkEditorTrajectory(EmptyGraph, Sorted(revisions, <<"timestamp">>), revisions, 1)
    /\ pc' = "done"
    /\ UNCHANGED <<call, args, iter, result>>

TrajectoryRevisions == [timestamp : 1 .. MaxTime, user : Users, title : Pages]

InitTrajectory ==
    /\ call \in {"make_article_trajectory", "make_editor_trajectory"}
    /\ pc = "start"
    /\ alter_revisions_dict = EmptyDict
    /\ threshold = 0
    /\ hyperlink_dict = EmptyDict
    /\ categories_dict = EmptyDict
    /\ revisions \in SeqsUpTo(TrajectoryRevisions, MaxTrajectory)
    /\ min_date = 0
    /\ max_date = 0
    /\ response = <<>>
    /\ ScraperIdle
    /\ net = EmptyGraph
    /\ iter = {}
    /\ result = <<>>

NextTrajectory ==
    \/ make_article_trajectory
    \/ make_editor_trajectory

SpecTrajectory == InitTrajectory /\ [][NextTrajectory]_vars

\* The number of positions of list where the field is a and is b at the next position.
Moves(list, field, a, b) ==
    Cardinality({i \in 1 .. Len(list) - 1 : list[i][field] = a /\ list[i + 1][field] = b})

\* The graph whose edges are the moves of the field along list, weighted by their number.
IsTrajectoryOf(G, list, field, values) ==
    \A a, b \in values :
        /\ has_edge(G, a, b) <=> Moves(list, field, a, b) > 0
        /\ has_edge(G, a, b) => G.adj[<<a, b>>].weight = Moves(list, field, a, b)

\* C5: make_article_trajectory, given the revisions in any order, returns the
\* graph in which the weight of (u, v) is the number of indices i with
\* revision i by u and revision i + 1 by v in the sequence sorted by timestamp.
C5_ArticleTrajectorySorted ==
    (call = "make_article_trajectory" /\ Returned) =>
        /\ Nodes(net) \subseteq Users
        /\ IsTrajectoryOf(net, Sorted(revisions, <<"timestamp">>), "user", Users)

\* C6: make_editor_trajectory returns a graph whose nodes are page titles, with
\* an edge between the pages of revisions consecutive in timestamp order,
\* weighted by the number of such pairs.
C6_EditorTrajectoryPages ==
    (call = "make_editor_trajectory" /\ Returned) =>
        /\ Nodes(net) \subseteq Pages
        /\ IsTrajectoryOf(net, Sorted(revisions, <<"timestamp">>), "title", Pages)

----------------------------------------------------------------------------
(* All the graph builders together.                                        *)

InitBuilders ==
    \/ InitShared
    \/ InitHyperlink
    \/ InitCategory
    \/ InitTrajectory

NextBuilders ==
    \/ NextShared
    \/ NextHyperlink
    \/ NextCategory
    \/ NextTrajectory

SpecBuilders == InitBuilders /\ [][NextBuilders]_vars

SelfLoops(G) == {e \in Edges(G) : e[1] = e[2]}

\* C8 as stated: every graph a builder returns has no self-loop and no
\* isolated node.
C8_NoSelfLoopNoIsolate ==
    Returned =>
        /\ SelfLoops(net) = {}
        /\ isolates(net) = {}

\* C8, amended: every graph a builder returns has no isolated node, and the
\* graphs of the two shared-editing builders have no self-loop; the other
\* builders never remove an edge, so theirs keep the self-loops of the input.
C8_NoIsolateAndSharedNoSelfLoop ==
    Returned =>
        /\ \A n \in Nodes(net) : degree(net, n) >= 1
        /\ call \in SharedBuilders => SelfLoops(net) = {}

\* make_hyperlink_network has returned the graph of a dictionary in which one
\* page links to itself and to another page, and a third page has no links.
C8_Witness ==
    /\ call = "make_hyperlink_network"
    /\ Returned
    /\ \E p, q, r \in DOMAIN hyperlink_dict :
         /\ p # q
         /\ has_edge(net, p, p)
         /\ has_edge(net, p, q)
         /\ hyperlink_dict[r] = <<>>
         /\ r \notin Nodes(net)

----------------------------------------------------------------------------
(* adjacency_calcs.  revisions is the caller's list of revision             *)
(* dictionaries; sorted() builds a new list of the same dictionaries, so    *)
(* the returned list is the sequence of their indices in revisions, and     *)
(* every assignment to a key is seen through both lists.                    *)

MaxAdjacency == 3
MaxStamp == 2

PageIds == {1, 2}
Sizes == {1, 4}

MutantAdjacencyKey == <<"pageid">>

\* key=itemgetter('pageid', 'timestamp')
AdjacencyKey == <<"pageid", "timestamp">>

\* The indices of list in the order sorted(list, key=itemgetter(*fields)) puts them.
SortedIndices(list, fields) ==
    LET tagged == [i \in DOMAIN list |-> [id |-> i] @@ list[i]]
        sorted == Sorted(tagged, fields)
    IN  [k \in DOMAIN sorted |-> sorted[k].id]

MutantListOfSet(l) == l

\* list(set(l)): the distinct elements of l, in the order the set yields
\* them; nothing in the program depends on that order.
ListOfSet(l) ==
    LET S == {l[i] : i \in DOMAIN l}
    IN  CHOOSE u \in KeyLists(S) : TRUE

\* revisions[0][...] = ...: the keys set on the first sorted revision.
FirstFields(rev) ==
    [position |-> 0,
     edit_lag |-> 0,
     bytes_added |-> rev.size,
     unique_users |-> <<rev.username>>,
     unique_users_count |-> 1,
     article_age |-> 0] @@ rev

MutantBytesAdded(next, rev) == next.size

\* revisions[num+1]['size'] - rev['size']
BytesAdded(next, rev) == next.size - rev.size

\* One round of the loop: rev is revisions[num], next is revisions[num+1] and
\* first is revisions[0].  unique_users of next is first bound to the list of
\* rev, which append() then extends, and then bound to a new list; the round
\* returns the two dictionaries as it leaves them.
LoopBody(rev, next, first) ==
    LET appended == Append(rev.unique_users, next.username)
        unique == ListOfSet(appended)
    IN  [rev  |-> [rev EXCEPT !.unique_users = appended],
         next |-> [position |-> rev.position + 1,
                   edit_lag |-> next.timestamp - rev.timestamp,
                   bytes_added |-> BytesAdded(next, rev),
                   unique_users |-> unique,
                   unique_users_count |-> Len(unique),
                   article_age |-> next.timestamp - first.timestamp] @@ next]

\* for num, rev in enumerate(revisions[:-1]), on the dictionaries heap[order[num]]
RECURSIVE WalkRevisions(_, _, _)
WalkRevisions(heap, order, num) ==
    IF num >= Len(order)
      THEN heap
      ELSE LET round == LoopBody(heap[order[num]], heap[order[num + 1]], heap[order[1]])
           IN  WalkRevisions([heap EXCEPT ![order[num]] = round.rev,
                                          ![order[num + 1]] = round.next],
                             order, num + 1)

adjacency_calcs ==
    /\ call = "adjacency_calcs"
    /\ pc = "start"
    /\ LET order == SortedIndices(revisions, AdjacencyKey)
       IN  IF order = <<>>
             THEN \* revisions[0] of the empty list
                  /\ pc' = "raised"
                  /\ result' = "IndexError"
                  /\ UNCHANGED revisions
             ELSE /\ pc' = "done"
                  /\ result' = order
                  /\ revisions' = WalkRevisions(
                         [revisions EXCEPT ![order[1]] = FirstFields(@)], order, 1)
    /\ UNCHANGED <<call, alter_revisions_dict, threshold, hyperlink_dict,
                   categories_dict, min_date, max_date, response, scraper,
                   net, iter>>

AdjacencyRevisions ==
    [pageid : PageIds, timestamp : 1 .. MaxStamp, size : Sizes, username : Users]

InitAdjacency ==
    /\ call = "adjacency_calcs"
    /\ pc = "start"
    /\ alter_revisions_dict = EmptyDict
    /\ threshold = 0
    /\ hyperlink_dict = EmptyDict
    /\ categories_dict = EmptyDict
    /\ revisions \in SeqsUpTo(AdjacencyRevisions, MaxAdjacency)
    /\ min_date = 0
    /\ max_date = 0
    /\ response = <<>>
    /\ ScraperIdle
    /\ net = EmptyGraph
    /\ iter = {}
    /\ result = <<>>

NextAdjacency == adjacency_calcs

SpecAdjacency == InitAdjacency /\ [][NextAdjacency]_vars

\* The k-th revision of the list adjacency_calcs returned.
Normalized(k) == revisions[result[k]]

SinglePage == \A i, j \in DOMAIN revisions : revisions[i].pageid = revisions[j].pageid

\* C9: for a non-empty list of one page's revisions, passed in any order, the
\* k-th returned revision (k = 0, 1, ...) has position k, bytes_added equal
\* to its size when k = 0 and to its size minus the size of the revision
\* before it in the returned order when k > 0.
C9_PositionAndBytesAdded ==
    (call = "adjacency_calcs" /\ Returned /\ SinglePage) =>
        /\ Len(result) = Len(revisions)
        /\ \A i \in DOMAIN revisions : \E k \in DOMAIN result : result[k] = i
        /\ \A k \in DOMAIN result :
              /\ Normalized(k).position = k - 1
              /\ Normalized(k).bytes_added =
                    IF k = 1 THEN Normalized(k).size
                    ELSE Normalized(k).size - Normalized(k - 1).size

\* Three revisions of one page, passed in an order that is not the order of
\* their timestamps, with sizes that go up and down.
C9_Witness ==
    /\ call = "adjacency_calcs"
    /\ Returned
    /\ SinglePage
    /\ Len(result) >= 3
    /\ result # <<1, 2, 3>>
    /\ \E j, k \in DOMAIN result :
         Normalized(j).bytes_added < 0 /\ Normalized(k).bytes_added > 0 /\ k > 1

\* C10: after adjacency_calcs the timestamps of one page's revisions never
\* decrease along the returned list, whatever the input order; edit_lag is 0
\* at position 0 and is the timestamp minus the timestamp of the revision
\* before, hence not negative, at every later position of a page's list.
C10_TimestampsAndEditLag ==
    (call = "adjacency_calcs" /\ Returned) =>
        /\ \A j, k \in DOMAIN result :
              (j < k /\ Normalized(j).pageid = Normalized(k).pageid) =>
                  Normalized(j).timestamp <= Normalized(k).timestamp
        /\ SinglePage =>
              \A k \in DOMAIN result :
                  /\ Normalized(k).position = 0 => Normalized(k).edit_lag = 0
                  /\ k > 1 =>
                        /\ Normalized(k).edit_lag =
                              Normalized(k).timestamp - Normalized(k - 1).timestamp
                        /\ Normalized(k).edit_lag >= 0

\* Revisions of one page passed latest first: the returned list is reordered
\* and a later position has a positive edit_lag.
C10_Witness ==
    /\ call = "adjacency_calcs"
    /\ Returned
    /\ SinglePage
    /\ Len(revisions) >= 2
    /\ revisions[1].timestamp > revisions[2].timestamp
    /\ \E k \in DOMAIN result : k > 1 /\ Normalized(k).edit_lag > 0

\* The editors of the returned revisions at the positions from, ..., to.
EditorsOf(from, to) == {Normalized(j).username : j \in from .. to}

ListSet(l) == {l[i] : i \in DOMAIN l}

\* C11: after adjacency_calcs the unique_users of the revision at position i
\* holds exactly the distinct editors of the positions 0..i, each once, and
\* unique_users_count is the number of those editors.
C11_UniqueUsersSoFar ==
    (call = "adjacency_calcs" /\ Returned /\ SinglePage) =>
        \A k \in DOMAIN result :
            /\ ListSet(Normalized(k).unique_users) = EditorsOf(1, k)
            /\ Len(Normalized(k).unique_users) = Cardinality(EditorsOf(1, k))
            /\ Normalized(k).unique_users_count = Cardinality(EditorsOf(1, k))

\* The first returned position of the page of the k-th returned revision.
PageStart(k) ==
    CHOOSE j \in DOMAIN result :
        /\ Normalized(j).pageid = Normalized(k).pageid
        /\ \A i \in DOMAIN result : Normalized(i).pageid = Normalized(k).pageid => j <= i

\* C12: given revisions of more than one page, adjacency_calcs computes the
\* derived fields per page: the earliest revision of each page has position
\* 0, edit_lag 0 and bytes_added equal to its size, and unique_users and
\* article_age of a page use no editor and no timestamp of another page.
C12_PerPageFields ==
    (call = "adjacency_calcs" /\ Returned) =>
        \A k \in DOMAIN result :
            LET first == PageStart(k)
            IN  /\ Normalized(k).position = k - first
                /\ k = first =>
                      /\ Normalized(k).edit_lag = 0
                      /\ Normalized(k).bytes_added = Normalized(k).size
                /\ ListSet(Normalized(k).unique_users) \subseteq
                      {Normalized(j).username :
                          j \in {i \in DOMAIN result :
                                    Normalized(i).pageid = Normalized(k).pageid}}
                /\ Normalized(k).article_age =
                      Normalized(k).timestamp - Normalized(first).timestamp

(***************************************************************************)
(* The daily counters: revision_counter, size_counter, link_counter,       *)
(* word_counter and user_counter.  A timestamp is a number of ticks, a day *)
(* has TicksPerDay of them; a time series is a function from days to       *)
(* values.                                                                 *)
(***************************************************************************)
MaxCounter == 3

MaxDay == 2

TicksPerDay == 2

Stamps == 0 .. ((MaxDay + 1) * TicksPerDay - 1)

\* The days a window may begin or end at: one day around the days of Stamps.
WindowDays == (0 - 1) .. (MaxDay + 1)

\* timestamp.date()
Date(timestamp) == timestamp \div TicksPerDay

\* The value of a day pandas has no observation for.
NaN == 0 - 1

Min(S) == CHOOSE x \in S : \A y \in S : x <= y

Max(S) == CHOOSE x \in S : \A y \in S : y <= x

\* The keys of dd: the days at least one revision falls on.
Dates(revs) == {Date(revs[i].timestamp) : i \in DOMAIN revs}

\* The indices of the revisions of day d, in the order of the list.
OnDate(revs, d) == SelectSeq([i \in DOMAIN revs |-> i],
                             LAMBDA i : Date(revs[i].timestamp) = d)

\* The list dd[d] the loop of a counter collects for day d from one field.
Collected(revs, d, field) ==
    [k \in DOMAIN OnDate(revs, d) |-> revs[OnDate(revs, d)[k]][field]]

\* np.median: the middle value, the mean of the two middle values for an
\* even count.  The sizes and word counts of the model make that mean whole.
Median(v) ==
    LET s == SortSeq(v, LAMBDA a, b : a < b)
        n == Len(s)
    IN  IF n % 2 = 1 THEN s[(n + 1) \div 2]
                     ELSE (s[n \div 2] + s[n \div 2 + 1]) \div 2

\* np.max
Largest(v) == Max({v[k] : k \in DOMAIN v})

RECURSIVE Concat(_)
\* The list the += of link_counter builds from the lists of one day.
Concat(lists) ==
    IF lists = <<>> THEN <<>> ELSE Head(lists) \o Concat(Tail(lists))

\* len(set(...))
Distinct(l) == Cardinality({l[k] : k \in DOMAIN l})

MarkupTokens == {"k=v", "{{t}}"}

\* The number of the tokens of a content that hold none of : {{ }} | =
Words(content) == Len(SelectSeq(content, LAMBDA w : w \notin MarkupTokens))

\* ts.reindex(pd.date_range(np.min(list(ts.index)), np.max(list(ts.index)))):
\* every day from the first to the last observed day, fill where none is.
Reindex(ts, fill) ==
    [d \in Min(DOMAIN ts) .. Max(DOMAIN ts) |->
        IF d \in DOMAIN ts THEN ts[d] ELSE fill]

\* ts.fillna(method='ffill')
FillForward(ts) ==
    [d \in DOMAIN ts |->
        LET seen == {e \in DOMAIN ts : e <= d /\ ts[e] # NaN}
        IN  IF seen = {} THEN NaN ELSE ts[Max(seen)]]

\* ts[min_date:max_date]
Slice(ts, lo, hi) == [d \in {e \in DOMAIN ts : lo <= e /\ e <= hi} |-> ts[d]]

\* The end of a counter: np.min of the empty index raises ValueError, and
\* otherwise the counter returns the series ts.
CounterReturn(dd, ts) ==
    IF DOMAIN dd = {}
      THEN pc' = "raised" /\ result' = "ValueError"
      ELSE pc' = "done" /\ result' = ts

\* The arguments a counter does not write.
CounterFrame ==
    UNCHANGED <<call, alter_revisions_dict, threshold, hyperlink_dict,
                categories_dict, min_date, max_date, response, scraper,
                   net, iter>>

\* The series revision_counter returns for a list with a revision.
RevisionSeries(revs, lo, hi) ==
    LET dd == [d \in Dates(revs) |-> Len(OnDate(revs, d))]
    IN  Slice(Reindex(dd, 0), lo, hi)

revision_counter ==
    /\ call = "revision_counter"
    /\ pc = "start"
    /\ CounterReturn([d \in Dates(revisions) |-> d],
                     RevisionSeries(revisions, min_date, max_date))
    /\ UNCHANGED revisions
    /\ CounterFrame

\* The series size_counter returns for a list with a revision.
SizeSeries(revs, lo, hi) ==
    LET dd2 == [d \in Dates(revs) |-> Median(Collected(revs, d, "size"))]
    IN  Slice(FillForward(Reindex(dd2, NaN)), lo, hi)

size_counter ==
    /\ call = "size_counter"
    /\ pc = "start"
    /\ CounterReturn([d \in Dates(revisions) |-> d],
                     SizeSeries(revisions, min_date, max_date))
    /\ UNCHANGED revisions
    /\ CounterFrame

\* ld[d] = r['links'] binds ld[d] to the list of the first revision of the
\* day, and ld[d] += r['links'] extends that list in place.
link_counter ==
    /\ call = "link_counter"
    /\ pc = "start"
    /\ LET ld == [d \in Dates(revisions) |-> Concat(Collected(revisions, d, "links"))]
           ld2 == [d \in Dates(revisions) |-> Distinct(ld[d])]
       IN  /\ CounterReturn(ld2, Slice(FillForward(Reindex(ld2, NaN)), min_date, max_date))
           /\ revisions' =
                 [i \in DOMAIN revisions |->
                     LET d == Date(revisions[i].timestamp)
                     IN  IF i = Head(OnDate(revisions, d))
                           THEN [revisions[i] EXCEPT !.links = ld[d]]
                           ELSE revisions[i]]
    /\ CounterFrame

word_counter ==
    /\ call = "word_counter"
    /\ pc = "start"
    /\ LET counts == [i \in DOMAIN revisions |->
                         [timestamp |-> revisions[i].timestamp,
                          words2 |-> Words(revisions[i].content)]]
           ld2 == [d \in Dates(revisions) |-> Median(Collected(counts, d, "words2"))]
       IN  CounterReturn(ld2, Slice(FillForward(Reindex(ld2, NaN)), min_date, max_date))
    /\ UNCHANGED revisions
    /\ CounterFrame

\* The series user_counter returns for a list with a revision.
UserSeries(revs, lo, hi) ==
    LET dd2 == [d \in Dates(revs) |->
                   Largest(Collected(revs, d, "unique_users_count"))]
    IN  Slice(FillForward(Reindex(dd2, NaN)), lo, hi)

user_counter ==
    /\ call = "user_counter"
    /\ pc = "start"
    /\ CounterReturn([d \in Dates(revisions) |-> d],
                     UserSeries(revisions, min_date, max_date))
    /\ UNCHANGED revisions
    /\ CounterFrame

Counters == {"revision_counter", "size_counter", "link_counter",
             "word_counter", "user_counter"}

CounterSizes == {100, 150, 200}

LinkLists == {<<"x">>, <<"y">>}

Contents == {<<"w">>, <<"w", "k=v", "w", "w">>}

\* The revisions a counter is given: the fields the counter reads.
CounterRevisions(c) ==
    CASE c = "revision_counter" -> [timestamp : Stamps]
      [] c = "size_counter" -> [timestamp : Stamps, size : CounterSizes]
      [] c = "link_counter" -> [timestamp : Stamps, links : LinkLists]
      [] c = "word_counter" -> [timestamp : Stamps, content : Contents]
      [] c = "user_counter" ->
             [timestamp : Stamps, unique_users_count : 1 .. Cardinality(Users)]

InitCounters ==
    /\ call \in Counters
    /\ pc = "start"
    /\ alter_revisions_dict = EmptyDict
    /\ threshold = 0
    /\ hyperlink_dict = EmptyDict
    /\ categories_dict = EmptyDict
    /\ revisions \in SeqsUpTo(CounterRevisions(call), MaxCounter)
    /\ min_date \in WindowDays
    /\ max_date \in min_date .. MaxDay + 1
    /\ response = <<>>
    /\ ScraperIdle
    /\ net = EmptyGraph
    /\ iter = {}
    /\ result = <<>>

NextCounters ==
    \/ revision_counter
    \/ size_counter
    \/ link_counter
    \/ word_counter
    \/ user_counter

SpecCounters == InitCounters /\ [][NextCounters]_vars

\* C13: revision_counter returns, for a window of N days, one value for
\* every day of the window, 0 on every day without a revision (the days
\* before the first and after the last revision included) and a non-zero
\* value on exactly the days with a revision.
C13_ZeroFillOverWindow ==
    (call = "revision_counter" /\ pc # "start" /\ revisions # <<>>) =>
        /\ pc = "done"
        /\ DOMAIN result = min_date .. max_date
        /\ \A d \in min_date .. max_date :
              result[d] = Len(OnDate(revisions, d))

FillCounters == {"size_counter", "link_counter", "word_counter", "user_counter"}

\* The value a forward-fill counter computes for the observed day d.
DayAggregate(c, revs, d) ==
    CASE c = "size_counter" -> Median(Collected(revs, d, "size"))
      [] c = "link_counter" -> Distinct(Concat(Collected(revs, d, "links")))
      [] c = "word_counter" ->
             Median([k \in DOMAIN OnDate(revs, d) |->
                        Words(revs[OnDate(revs, d)[k]].content)])
      [] c = "user_counter" -> Largest(Collected(revs, d, "unique_users_count"))

\* The observed days up to day d.
ObservedUpTo(revs, d) == {e \in Dates(revs) : e <= d}

\* C14: a forward-fill counter gives every day d of [min_date, max_date]
\* that has an observed day at or before it the aggregate of the latest
\* observed day at or before d, leaves the days with no earlier observation
\* undefined, and returns no value that is not a per-day aggregate.
C14_ForwardFillOverWindow ==
    (call \in FillCounters /\ pc = "done") =>
        /\ \A d \in min_date .. max_date :
              IF ObservedUpTo(revisions, d) # {}
                THEN /\ d \in DOMAIN result
                     /\ result[d] = DayAggregate(call, revisions,
                                                 Max(ObservedUpTo(revisions, d)))
                ELSE d \in DOMAIN result => result[d] = NaN
        /\ \A d \in DOMAIN result :
              result[d] \in {DayAggregate(call, revisions, e) : e \in Dates(revisions)}
                            \cup {NaN}

\* C15: a counter given no revision at all does not fail: it returns an
\* empty series.
C15_EmptyInputReturns ==
    (call \in Counters /\ revisions = <<>> /\ pc # "start") =>
        pc = "done" /\ DOMAIN result = {}

\* C17: a core function leaves its input alone: no step of a counter
\* changes a revision record of the list it was given or a list such a
\* record holds, the links list in particular.
C17_InputsUnchanged ==
    [][(call \in Counters) => (revisions' = revisions)]_vars

(***************************************************************************)
(* get_editing_dynamics2: the revisions of one article, fetched oldest     *)
(* first up to max_date, go through adjacency_calcs and three counters,    *)
(* and the three series become the columns of one frame.                   *)
(***************************************************************************)
\* The list adjacency_calcs returns for a list with a revision.
AdjacencyCalcs(revs) ==
    LET order == SortedIndices(revs, AdjacencyKey)
        heap == WalkRevisions([revs EXCEPT ![order[1]] = FirstFields(@)], order, 1)
    IN  [k \in DOMAIN order |-> heap[order[k]]]

\* The cell of a column that has no row for day d.
At(ts, d) == IF d \in DOMAIN ts THEN ts[d] ELSE NaN

\* pd.concat([ts1, ts3, ts4], axis=1) with the columns Article, Users, Size:
\* one row for every day some series has a row for.
Frame(ts1, ts3, ts4) ==
    [d \in DOMAIN ts1 \cup DOMAIN ts3 \cup DOMAIN ts4 |->
        [Article |-> At(ts1, d), Users |-> At(ts3, d), Size |-> At(ts4, d)]]

get_editing_dynamics2 ==
    /\ call = "get_editing_dynamics2"
    /\ pc = "start"
    /\ IF revisions = <<>>
         THEN \* adjacency_calcs([]) raises
              /\ pc' = "raised"
              /\ result' = "IndexError"
              /\ UNCHANGED revisions
         ELSE LET r1 == AdjacencyCalcs(revisions)
              IN  /\ pc' = "done"
                  /\ result' = Frame(RevisionSeries(r1, min_date, max_date),
                                     UserSeries(r1, min_date, max_date),
                                     SizeSeries(r1, min_date, max_date))
                  /\ revisions' = r1
    /\ CounterFrame

\* The revisions get_page_revisions returns for one article.
FetchedRevisions ==
    [pageid : {1}, timestamp : Stamps, size : CounterSizes, username : Users]

\* rvdir newer, rvend max_date: oldest first and none after max_date.
IsFetched(revs, hi) ==
    /\ \A i \in DOMAIN revs : revs[i].timestamp <= hi * TicksPerDay
    /\ \A i, j \in DOMAIN revs : i < j => revs[i].timestamp <= revs[j].timestamp

InitDynamics ==
    /\ call = "get_editing_dynamics2"
    /\ pc = "start"
    /\ alter_revisions_dict = EmptyDict
    /\ threshold = 0
    /\ hyperlink_dict = EmptyDict
    /\ categories_dict = EmptyDict
    /\ min_date \in WindowDays
    /\ max_date \in min_date .. MaxDay + 1
    /\ revisions \in {revs \in SeqsUpTo(FetchedRevisions, MaxCounter) :
                         IsFetched(revs, max_date)}
    /\ response = <<>>
    /\ ScraperIdle
    /\ net = EmptyGraph
    /\ iter = {}
    /\ result = <<>>

NextDynamics == get_editing_dynamics2

SpecDynamics == InitDynamics /\ [][NextDynamics]_vars

\* C16: in the frame of get_editing_dynamics2 every day of the window has a
\* row; its Article cell is the number of revisions of that day, 0 if there
\* is none, and its Size cell is the median of the sizes of the latest day
\* with a revision at or before it.
C16_ArticleAndSizeColumns ==
    (call = "get_editing_dynamics2" /\ pc = "done") =>
        \A d \in min_date .. max_date :
            /\ d \in DOMAIN result
            /\ result[d].Article = Len(OnDate(revisions, d))
            /\ ObservedUpTo(revisions, d) # {} =>
                  result[d].Size =
                      Median(Collected(revisions, Max(ObservedUpTo(revisions, d)), "size"))

(***************************************************************************)
(* get_page_revisions and get_page_content: the revisions of the API       *)
(* response are turned into revision dictionaries.  response is the list   *)
(* result['pages'][page_number]['revisions']; a revision of it may lack    *)
(* the keys user and size, its timestamp is a string, and its content is   *)
(* hidden.                                                                 *)
(***************************************************************************)
MaxBatch == 3

\* datetime.datetime.strptime(string, '%Y-%m-%dT%H:%M:%SZ') of the strings
\* it accepts; for any other string it raises ValueError.
Parsed == ("2014-01-01T00:00:00Z" :> 0) @@ ("2014-01-01T12:00:00Z" :> 1)

TimestampStrings == DOMAIN Parsed \cup {"yesterday"}

convert_to_datetime(string) == Parsed[string]

\* revision.get(key, default)
Get(revision, key, default) ==
    IF key \in DOMAIN revision THEN revision[key] ELSE default

\* The exception the body of the loop of get_page_revisions raises on a
\* revision: revision['user'] is read before the timestamp is converted.
RevisionRaises(revision) ==
    IF "user" \notin DOMAIN revision THEN "KeyError"
    ELSE IF revision.timestamp \notin DOMAIN Parsed THEN "ValueError"
    ELSE "none"

\* The exception the body of the loop of get_page_content raises: the
\* timestamp is converted before revision['user'] is read.
ContentRaises(revision) ==
    IF revision.timestamp \notin DOMAIN Parsed THEN "ValueError"
    ELSE IF "user" \notin DOMAIN revision THEN "KeyError"
    ELSE "none"

\* The dictionary the loops make of a revision that raises nothing.
Converted(revision) ==
    [pageid |-> 1, title |-> "A", revid |-> revision.revid,
     username |-> revision.user, size |-> Get(revision, "size", 0),
     timestamp |-> convert_to_datetime(revision.timestamp)]

\* The position of the first revision an exception is raised on, given what
\* each revision raises, or one past the last position.
FirstRaise(raised) ==
    Min({k \in DOMAIN raised : raised[k] # "none"} \cup {Len(raised) + 1})

get_page_revisions ==
    /\ call = "get_page_revisions"
    /\ pc = "start"
    /\ LET stop == FirstRaise([k \in DOMAIN response |-> RevisionRaises(response[k])])
           kept == [k \in 1 .. stop - 1 |-> Converted(response[k])]
       IN  IF stop > Len(response)
             THEN pc' = "done" /\ result' = kept
             ELSE IF RevisionRaises(response[stop]) = "KeyError"
               THEN \* except KeyError: revisions = list()
                    pc' = "done" /\ result' = <<>>
               ELSE pc' = "raised" /\ result' = "ValueError"
    /\ UNCHANGED <<call, args, net, iter>>

\* revisions_dict[revision['revid']] = rev, with the content and the links
\* of a revision whose content is hidden; except KeyError: pass
get_page_content ==
    /\ call = "get_page_content"
    /\ pc = "start"
    /\ LET stop == FirstRaise([k \in DOMAIN response |-> ContentRaises(response[k])])
           revisions_dict ==
               [id \in {response[k].revid : k \in 1 .. stop - 1} |->
                   LET k == CHOOSE k \in 1 .. stop - 1 : response[k].revid = id
                   IN  [content |-> "", links |-> <<>>] @@ Converted(response[k])]
       IN  IF stop <= Len(response) /\ ContentRaises(response[stop]) = "ValueError"
             THEN pc' = "raised" /\ result' = "ValueError"
             ELSE pc' = "done" /\ result' = revisions_dict
    /\ UNCHANGED <<call, args, net, iter>>

\* The revisions the API may return at position revid of the response.
RawRevisions(revid) ==
    UNION {[revid : {revid}, timestamp : TimestampStrings],
           [revid : {revid}, timestamp : TimestampStrings, user : Users],
           [revid : {revid}, timestamp : TimestampStrings, size : Sizes],
           [revid : {revid}, timestamp : TimestampStrings, user : Users, size : Sizes]}

RECURSIVE Responses(_)
\* The responses of n revisions, with the revision ids 1, ..., n.
Responses(n) ==
    IF n = 0 THEN {<<>>}
    ELSE {Append(r, revision) : r \in Responses(n - 1), revision \in RawRevisions(n)}

InitFetch ==
    /\ call \in {"get_page_revisions", "get_page_content"}
    /\ pc = "start"
    /\ alter_revisions_dict = EmptyDict
    /\ threshold = 0
    /\ hyperlink_dict = EmptyDict
    /\ categories_dict = EmptyDict
    /\ revisions = <<>>
    /\ min_date = 0
    /\ max_date = 0
    /\ response \in UNION {Responses(n) : n \in 0 .. MaxBatch}
    /\ ScraperIdle
    /\ net = EmptyGraph
    /\ iter = {}
    /\ result = <<>>

NextFetch ==
    \/ get_page_revisions
    \/ get_page_content

SpecFetch == InitFetch /\ [][NextFetch]_vars

\* A revision of the response that is not malformed.
WellFormed(revision) ==
    "user" \in DOMAIN revision /\ revision.timestamp \in DOMAIN Parsed

\* The revision ids of the revisions a fetch function returned.
ReturnedIds ==
    IF call = "get_page_revisions" THEN {result[k].revid : k \in DOMAIN result}
                                   ELSE DOMAIN result

\* C18: a malformed revision in the fetched batch (a timestamp that does
\* not parse, no user) is skipped alone: the call returns, and it returns
\* exactly the revisions of the batch that are not malformed.
C18_OnlyMalformedSkipped ==
    (call \in {"get_page_revisions", "get_page_content"} /\ pc # "start") =>
        /\ pc = "done"
        /\ ReturnedIds = {response[k].revid :
                             k \in {j \in DOMAIN response : WellFormed(response[j])}}

(***************************************************************************)
(* The three cleanup passes of the shared-editing builders as functions of *)
(* a graph.                                                                *)
(***************************************************************************)
RECURSIVE RemoveEdges(_, _)
RemoveEdges(G, todo) ==
    IF todo = {}
      THEN G
      ELSE LET e == CHOOSE x \in todo : TRUE
           IN  RemoveEdges(remove_edge(G, e[1], e[2]), todo \ {e})

RECURSIVE RemoveNodes(_, _)
RemoveNodes(G, todo) ==
    IF todo = {}
      THEN G
      ELSE LET n == CHOOSE x \in todo : TRUE
           IN  RemoveNodes(remove_node(G, n), todo \ {n})

\* Remove the edges of weight below the threshold.
ThresholdPass(G, t) ==
    RemoveEdges(G, {e \in Edges(G) : BelowThreshold(G.adj[e], t)})

\* Remove the self-loops.
SelfLoopPass(G) == RemoveEdges(G, {e \in Edges(G) : e[1] = e[2]})

\* Remove the resulting isolates.
IsolatePass(G) == RemoveNodes(G, isolates(G))

\* The passes in the order of the code.
Cleanup(G, t) == IsolatePass(SelfLoopPass(ThresholdPass(G, t)))

\* The graph make_shared_user_editing_network has accumulated before cleanup.
Accumulated ==
    WalkEditors(EmptyGraph, alter_revisions_dict, DOMAIN alter_revisions_dict)

\* C19: make_shared_user_editing_network accepts a threshold of 0 or less
\* and then returns the graph it returns for the threshold 1; for every
\* threshold it returns the accumulated graph after the three passes.
C19_NonPositiveThresholdAsOne ==
    (call = "make_shared_user_editing_network" /\ Returned) =>
        /\ net = Cleanup(Accumulated, threshold)
        /\ threshold <= 0 => net = Cleanup(Accumulated, 1)

\* A call with a threshold of 0 or less has returned a graph with an edge,
\* after a self-loop was dropped.
C19_Witness ==
    /\ call = "make_shared_user_editing_network"
    /\ Returned
    /\ threshold <= 0
    /\ Edges(net) # {}
    /\ \E a \in Titles : PairCount(alter_revisions_dict, a, a) > 0

\* The final graphs of the six orders of the three passes.
SixOrders(G, t) ==
    {IsolatePass(SelfLoopPass(ThresholdPass(G, t))),
     IsolatePass(ThresholdPass(SelfLoopPass(G), t)),
     SelfLoopPass(IsolatePass(ThresholdPass(G, t))),
     SelfLoopPass(ThresholdPass(IsolatePass(G), t)),
     ThresholdPass(IsolatePass(SelfLoopPass(G)), t),
     ThresholdPass(SelfLoopPass(IsolatePass(G)), t)}

\* C20: the three cleanup passes commute and are idempotent: each of their
\* six orders ends in the graph make_shared_user_editing_network returns,
\* and cleaning the returned graph again changes nothing.
C20_PassesCommute ==
    (call = "make_shared_user_editing_network" /\ Returned) =>
        /\ SixOrders(Accumulated, threshold) = {net}
        /\ Cleanup(net, threshold) = net

\* C20, amended: the threshold pass and the self-loop pass commute when
\* isolate removal comes last, each of the three passes leaves the returned
\* graph as it is, and so does the whole cleanup applied a second time.
C20_EdgePassesCommuteIsolatesLast ==
    (call = "make_shared_user_editing_network" /\ Returned) =>
        /\ net = IsolatePass(SelfLoopPass(ThresholdPass(Accumulated, threshold)))
        /\ net = IsolatePass(ThresholdPass(SelfLoopPass(Accumulated), threshold))
        /\ ThresholdPass(net, threshold) = net
        /\ SelfLoopPass(net) = net
        /\ IsolatePass(net) = net
        /\ Cleanup(net, threshold) = net

\* A call has returned a graph with an edge after the threshold pass dropped
\* an edge and a node was removed as an isolate; removing the isolates
\* first would have returned another graph.
C20_Witness ==
    /\ call = "make_shared_user_editing_network"
    /\ Returned
    /\ Edges(net) # {}
    /\ ThresholdPass(Accumulated, threshold) # Accumulated
    /\ Nodes(net) # Nodes(Accumulated)
    /\ SelfLoopPass(ThresholdPass(IsolatePass(Accumulated), threshold)) # net

(***************************************************************************)
(* clean_revision: the user and userid of a revision with a hidden,        *)
(* converted or anonymous editor.  A string is a sequence of characters.   *)
(* response holds the revisions clean_revision is called on, one call      *)
(* after the other, and result the revisions the calls returned.           *)
(***************************************************************************)
MaxRandom == 2

Digits == {"0", "1"}

Exes == {"x", "X"}

RECURSIVE Repeat(_, _)
\* c * n, the empty string for n <= 0
Repeat(c, n) == IF n <= 0 THEN <<>> ELSE <<c>> \o Repeat(c, n - 1)

\* The characters i, ..., i + k - 1 of s are an octet of the pattern:
\* [\d]{1,3}, and with masked also [Xx]{1,3}.
OctetAt(s, i, k, masked) ==
    /\ i + k - 1 <= Len(s)
    /\ \/ \A j \in i .. i + k - 1 : s[j] \in Digits
       \/ masked /\ \A j \in i .. i + k - 1 : s[j] \in Exes

RECURSIVE MatchFrom(_, _, _, _)
\* ip_pattern.match: from position i on, s begins with n octets each
\* followed by a period and then one more octet; what follows is not looked at.
MatchFrom(s, i, n, masked) ==
    \E k \in 1 .. 3 :
        /\ OctetAt(s, i, k, masked)
        /\ n > 0 => /\ i + k <= Len(s)
                    /\ s[i + k] = "."
                    /\ MatchFrom(s, i + k + 1, n - 1, masked)

is_ip(ip_string, masked) == MatchFrom(ip_string, 1, 3, masked)

RECURSIVE Split(_)
\* string.split('.')
Split(string) ==
    LET dots == {i \in DOMAIN string : string[i] = "."}
    IN  IF dots = {}
          THEN <<string>>
          ELSE LET i == Min(dots)
               IN  <<SubSeq(string, 1, i - 1)>>
                       \o Split(SubSeq(string, i + 1, Len(string)))

\* '0' * (3 - len(octet)) + octet
Padded(octet) == Repeat("0", 3 - Len(octet)) \o octet

\* ''.join([... for octet in revision['user'].split('.')])
IpUserid(user) == Concat([k \in DOMAIN Split(user) |-> Padded(Split(user)[k])])

\* random_string(le, letters=False, numerals=True): le characters, each
\* drawn from the numerals.  The model lets the last MaxRandom of them vary.
RandomStrings(le) ==
    {Repeat("0", le - MaxRandom) \o tail : tail \in [1 .. MaxRandom -> Digits]}

ConversionScript ==
    <<"C", "o", "n", "v", "e", "r", "s", "i", "o", "n", " ",
      "s", "c", "r", "i", "p", "t">>

\* What clean_revision does to the user and the userid of rev.
Category(rev) ==
    IF "userhidden" \in DOMAIN rev THEN "hidden"
    ELSE IF "anon" \notin DOMAIN rev THEN "named"
    ELSE IF rev.user = ConversionScript THEN "script"
    ELSE IF is_ip(rev.user, FALSE) THEN "ip"
    ELSE IF is_ip(rev.user, TRUE) THEN "masked"
    ELSE "named"

\* revision = rev.copy() with the keys user and userid set.
WithIdentity(rev, user, userid) ==
    [key \in DOMAIN rev \cup {"user", "userid"} |->
        IF key = "user" THEN user
        ELSE IF key = "userid" THEN userid
        ELSE rev[key]]

\* The revisions a call of clean_revision on rev can return.
Cleaned(rev) ==
    CASE Category(rev) = "hidden" ->
             {WithIdentity(rev, r, r) : r \in RandomStrings(15)}
      [] Category(rev) = "script" ->
             {WithIdentity(rev, r, r) : r \in RandomStrings(14)}
      [] Category(rev) = "ip" ->
             {WithIdentity(rev, rev.user, IpUserid(rev.user))}
      [] Category(rev) = "masked" ->
             {WithIdentity(rev, r, r) : r \in RandomStrings(13)}
      [] OTHER -> {rev}

clean_revision ==
    /\ call = "clean_revision"
    /\ pc = "start"
    /\ Len(result) < Len(response)
    /\ \E revision \in Cleaned(response[Len(result) + 1]) :
          result' = Append(result, revision)
    /\ UNCHANGED <<call, pc, args, net, iter>>

\* The calls are over.
CleanDone ==
    /\ call = "clean_revision"
    /\ pc = "start"
    /\ Len(result) = Len(response)
    /\ pc' = "done"
    /\ UNCHANGED <<call, args, net, iter, result>>

\* The user strings of anonymous revisions: addresses, addresses with more
\* after them, masked addresses, a string that is no address.
AnonUsers ==
    {<<"1", ".", "1", ".", "1", ".", "1">>,
     <<"0", "1", ".", "1", ".", "1", ".", "1">>,
     <<"1", ".", "1", ".", "1", ".", "1", "0">>,
     <<"1", ".", "1", ".", "1", ".", "1", "1", "1", "1">>,
     <<"1", ".", "1", ".", "1", ".", "1", ".", "1">>,
     <<"1", ".", "1", ".", "1", ".", "1", "x">>,
     <<"1", ".", "1", ".", "1", ".", "x">>,
     <<"x", ".", "X", ".", "x", ".", "x">>,
     <<"1", ".", "1", ".", "1">>,
     ConversionScript}

NamedUsers == {<<"a", "l">>}

Revisions ==
    [userhidden : {<<>>}]
        \cup [user : AnonUsers, userid : {<<"0">>}, anon : {<<>>}]
        \cup [user : NamedUsers, userid : {<<"7">>}]

InitClean ==
    /\ call = "clean_revision"
    /\ pc = "start"
    /\ alter_revisions_dict = EmptyDict
    /\ threshold = 0
    /\ hyperlink_dict = EmptyDict
    /\ categories_dict = EmptyDict
    /\ revisions = <<>>
    /\ min_date = 0
    /\ max_date = 0
    /\ response \in [1 .. 1 -> Revisions] \cup [1 .. 2 -> Revisions]
    /\ ScraperIdle
    /\ net = EmptyGraph
    /\ iter = {}
    /\ result = <<>>

NextClean ==
    \/ clean_revision
    \/ CleanDone

SpecClean == InitClean /\ [][NextClean]_vars

\* The editor a cleaned revision stands for.
Identity(revision) == <<revision.user, revision.userid>>

\* C21: clean_revision is deterministic: two calls on equal anomalous
\* revisions return the same user and userid, and the identity given to a
\* revision of one anomalous category is never the identity of a revision
\* of another category or of a named editor.
C21_IdentityDeterministic ==
    (call = "clean_revision" /\ Len(result) = 2) =>
        /\ response[1] = response[2] => Identity(result[1]) = Identity(result[2])
        /\ Category(response[1]) # Category(response[2]) =>
              Identity(result[1]) # Identity(result[2])

\* C25: for a user string is_ip accepts, clean_revision sets userid to
\* exactly 12 decimal digits, and no other accepted user string gets the
\* same userid.
C25_TwelveDigitsNoCollision ==
    (call = "clean_revision") =>
        \A k \in DOMAIN result :
            Category(response[k]) = "ip" =>
                /\ Len(result[k].userid) = 12
                /\ \A j \in DOMAIN result[k].userid : result[k].userid[j] \in Digits
                /\ \A user \in AnonUsers :
                      (is_ip(user, FALSE) /\ user # response[k].user) =>
                          IpUserid(user) # result[k].userid

(***************************************************************************)
(* pageview-scraper.py, main: the command line is read into the local      *)
(* variables start, end and datapath, and get_dumps is called with them.   *)
(***************************************************************************)
MaxArgs == 4

Tokens == {"-s", "-E", "--dir", "-h", "20130410"}

\* a.lower()
Lower(a) == IF a = "-E" THEN "-e" ELSE a

\* The local variable an option assigns, and the value it assigns when no
\* argument follows the option.
Options ==
    [start |-> [flags |-> {"-s", "--start"}, default |-> "yesterday"],
     end |-> [flags |-> {"-e", "--end"}, default |-> "today"],
     datapath |-> [flags |-> {"-d", "--dir"}, default |-> "./Data/"]]

\* name = value
Assigned(bound, name, value) ==
    [n \in DOMAIN bound \cup {name} |-> IF n = name THEN value ELSE bound[n]]

RECURSIVE WalkArgs(_, _, _)
\* for i, arg in enumerate(args): the local variables after the loop
WalkArgs(bound, argument, i) ==
    IF i > Len(argument)
      THEN bound
      ELSE LET arg == Lower(argument[i])
               named == {n \in DOMAIN Options : arg \in Options[n].flags}
           IN  IF named = {}
                 THEN WalkArgs(bound, argument, i + 1)
                 ELSE LET name == CHOOSE n \in named : TRUE
                          value == IF i + 1 <= Len(argument)
                                     THEN argument[i + 1]
                                     ELSE Options[name].default
                      IN  WalkArgs(Assigned(bound, name, value), argument, i + 1)

\* os.path.exists(datapath) and get_dumps(start, end, datapath) read the
\* local variables: one that was never assigned raises UnboundLocalError.
main ==
    /\ call = "main"
    /\ pc = "start"
    /\ locals' = WalkArgs(EmptyDict, argv, 1)
    /\ IF DOMAIN locals' = DOMAIN Options
         THEN pc' = "get_dumps" /\ result' = <<>>
         ELSE pc' = "raised" /\ result' = "UnboundLocalError"
    /\ UNCHANGED <<call, alter_revisions_dict, threshold, hyperlink_dict,
                   categories_dict, revisions, min_date, max_date, response,
                   argv, start_dt, end_dt, index, disk, handled, net, iter>>

InitMain ==
    /\ call = "main"
    /\ pc = "start"
    /\ alter_revisions_dict = EmptyDict
    /\ threshold = 0
    /\ hyperlink_dict = EmptyDict
    /\ categories_dict = EmptyDict
    /\ revisions = <<>>
    /\ min_date = 0
    /\ max_date = 0
    /\ response = <<>>
    /\ argv \in SeqsUpTo(Tokens, MaxArgs)
    /\ locals = EmptyDict
    /\ start_dt = <<>>
    /\ end_dt = <<>>
    /\ index = <<>>
    /\ disk = EmptyDict
    /\ handled = EmptyDict
    /\ net = EmptyGraph
    /\ iter = {}
    /\ result = <<>>

NextMain == main

SpecMain == InitMain /\ [][NextMain]_vars

\* The options given on the command line.
Given == {n \in DOMAIN Options :
             \E i \in DOMAIN argv : Lower(argv[i]) \in Options[n].flags}

\* C22: main uses the default of every parameter that is not given
\* (yesterday, today, ./Data/), so that for every subset of the three
\* options it reaches get_dumps with start, end and datapath defined.
C22_DefaultsForAbsentOptions ==
    (call = "main" /\ pc # "start") =>
        /\ pc = "get_dumps"
        /\ DOMAIN locals = DOMAIN Options
        /\ \A n \in DOMAIN Options \ Given : locals[n] = Options[n].default

(***************************************************************************)
(* pageview-scraper.py, get_dumps and get_file.  A date is a pair of a     *)
(* month and a day of a calendar of MaxMonth short months; a pagecounts    *)
(* file is named by the date of its timestamp.  The program is run again   *)
(* and again over the same data directory.                                 *)
(***************************************************************************)
MaxMonth == 3

\* The number of days of a month: long and short months alternate.
MonthDays(month) == IF month % 2 = 1 THEN 3 ELSE 2

DumpDates ==
    UNION {{<<month, day>> : day \in 1 .. MonthDays(month)} : month \in 1 .. MaxMonth}

\* datetime(2007,12,10,0,0,0): the first date get_dumps accepts
FirstDump == <<1, 2>>

\* datetime.today()
Today == <<MaxMonth, 3>>

\* a < b for two datetimes
Earlier(a, b) == a[1] < b[1] \/ (a[1] = b[1] /\ a[2] < b[2])

\* date + relativedelta(months=1): the same day of the next month, or the
\* last day of that month.
PlusMonth(date) ==
    LET month == date[1] + 1
    IN  IF month <= MaxMonth /\ date[2] > MonthDays(month)
          THEN <<month, MonthDays(month)>>
          ELSE <<month, date[2]>>

\* The pagecounts links on the page of each month.
Listing == {<<1, 3>>, <<2, 1>>, <<2, 2>>, <<3, 1>>, <<3, 2>>}

\* What a download of a file can deliver, and the zero-length file.
FileContents == {"counts", "damaged"}

Zero == ""

\* hashlib.md5(read_file).hexdigest()
Md5(content) == IF content = "counts" THEN "9e107d" ELSE "e4d909"

\* The months whose md5sums.txt has a line for every pagecounts file; the
\* md5sums.txt of the other months has none.
HashedMonths == {1, 3}

\* md5_dict of a month: file name -> hash
Md5Dict(month) ==
    [link \in {l \in Listing : l[1] = month /\ month \in HashedMonths} |->
        Md5("counts")]

\* get_dumps(start, end, datapath) is called, in a new run of the program:
\* the two dates are parsed and checked against the time boundaries.
GetDumps ==
    /\ call = "get_dumps"
    /\ pc \in {"idle", "done", "raised"}
    /\ \E start \in DumpDates, end \in DumpDates \cup {PlusMonth(Today)} :
          /\ start_dt' = start
          /\ end_dt' = end
          /\ IF Earlier(start, FirstDump) \/ Earlier(Today, end)
               THEN pc' = "raised" /\ result' = "ValueError"
               ELSE pc' = "while" /\ result' = <<>>
          /\ index' = start
    /\ handled' = EmptyDict
    /\ iter' = <<>>
    /\ UNCHANGED <<call, alter_revisions_dict, threshold, hyperlink_dict,
                   categories_dict, revisions, min_date, max_date, response,
                   argv, locals, disk, net>>

\* What a step of the month loop leaves alone.
DumpsFrame ==
    UNCHANGED <<call, alter_revisions_dict, threshold, hyperlink_dict,
                categories_dict, revisions, min_date, max_date, response,
                argv, locals, start_dt, end_dt, net>>

\* The links of the month of the index strictly between start and end, in
\* the order of the page.
ValidLinks ==
    LET valid == {link \in Listing : /\ link[1] = index[1]
                                     /\ Earlier(start_dt, link)
                                     /\ Earlier(link, end_dt)}
    IN  CHOOSE links \in KeyLists(valid) :
            \A i, j \in DOMAIN links : i < j => Earlier(links[i], links[j])

\* while index < end_dt: the md5 sums and the links of the month are read
MonthBegin ==
    /\ call = "get_dumps"
    /\ pc = "while"
    /\ Earlier(index, end_dt)
    /\ iter' = ValidLinks
    /\ pc' = "for"
    /\ UNCHANGED <<index, disk, handled, result>>
    /\ DumpsFrame

\* while index < end_dt: the condition is false
LoopEnd ==
    /\ call = "get_dumps"
    /\ pc = "while"
    /\ ~Earlier(index, end_dt)
    /\ pc' = "done"
    /\ UNCHANGED <<index, disk, handled, iter, result>>
    /\ DumpsFrame

\* os.path.exists(filepath+link) and os.path.getsize(filepath+link) > 0
AlreadyExists(files, link) == link \in DOMAIN files /\ files[link] # Zero

\* The file link with the content written to it.
Written(files, link, content) ==
    [l \in DOMAIN files \cup {link} |-> IF l = link THEN content ELSE files[l]]

MutantChecksumMatches(content, md5_dict, link) == TRUE

\* file_md5 == md5_dict[os.path.basename(url)]
ChecksumMatches(content, md5_dict, link) == Md5(content) = md5_dict[link]

\* One link of the for loop: the file is skipped, or get_file is called.
\* urlopen fails (the error is printed and the loop goes on) or delivers a
\* content; open(..., "wb") then makes the file empty, and the content is
\* written if the month has no md5 sums or if its checksum matches; if it
\* does not match, ValueError ends the run.
LinkStep ==
    /\ call = "get_dumps"
    /\ pc = "for"
    /\ iter # <<>>
    /\ LET link == Head(iter)
           md5_dict == Md5Dict(index[1])
       IN  /\ iter' = Tail(iter)
           /\ IF AlreadyExists(disk, link)
                THEN /\ handled' = Written(handled, link, "already exists!")
                     /\ UNCHANGED <<disk, pc, result>>
                ELSE /\ handled' = Written(handled, link, "Retrieving pageviews")
                     /\ \/ UNCHANGED <<disk, pc, result>>
                        \/ \E read_file \in FileContents :
                              IF DOMAIN md5_dict = {}
                                   \/ ChecksumMatches(read_file, md5_dict, link)
                                THEN /\ disk' = Written(disk, link, read_file)
                                     /\ UNCHANGED <<pc, result>>
                                ELSE /\ disk' = Written(disk, link, Zero)
                                     /\ pc' = "raised"
                                     /\ result' = "ValueError"
    /\ UNCHANGED index
    /\ DumpsFrame

\* index += relativedelta(months=1)
MonthEnd ==
    /\ call = "get_dumps"
    /\ pc = "for"
    /\ iter = <<>>
    /\ index' = PlusMonth(index)
    /\ pc' = "while"
    /\ UNCHANGED <<disk, handled, iter, result>>
    /\ DumpsFrame

InitDumps ==
    /\ call = "get_dumps"
    /\ pc = "idle"
    /\ alter_revisions_dict = EmptyDict
    /\ threshold = 0
    /\ hyperlink_dict = EmptyDict
    /\ categories_dict = EmptyDict
    /\ revisions = <<>>
    /\ min_date = 0
    /\ max_date = 0
    /\ response = <<>>
    /\ argv = <<>>
    /\ locals = EmptyDict
    /\ start_dt = <<>>
    /\ end_dt = <<>>
    /\ index = <<>>
    /\ disk = EmptyDict
    /\ handled = EmptyDict
    /\ net = EmptyGraph
    /\ iter = <<>>
    /\ result = <<>>

NextDumps ==
    \/ GetDumps
    \/ MonthBegin
    \/ LoopEnd
    \/ LinkStep
    \/ MonthEnd

SpecDumps == InitDumps /\ [][NextDumps]_vars

\* C26: for every accepted start < end the month loop of get_dumps ends,
\* and when it has ended every listed pagecounts file with a timestamp
\* strictly between start and end has been handled (downloaded, or skipped
\* as present): no month that meets the range is left out.
C26_EveryFileInRangeHandled ==
    (call = "get_dumps" /\ pc = "done") =>
        \A link \in Listing :
            (Earlier(start_dt, link) /\ Earlier(link, end_dt)) =>
                link \in DOMAIN handled

\* The files of the months that have md5 sums.
Hashed == {link \in Listing : link[1] \in HashedMonths}

\* C27: from an empty data directory on and over any number of runs, no
\* file of non-zero length of a month with md5 sums has another MD5 than
\* the listed one; a mismatch raises ValueError and leaves no content, a
\* file without content is fetched by the run that comes to it, and a file
\* of non-zero length is never fetched or written again.
C27_StoredFilesMatchAndStay ==
    [][call = "get_dumps" =>
          /\ \A link \in Hashed \cap DOMAIN disk' :
                disk'[link] # Zero => Md5(disk'[link]) = Md5Dict(link[1])[link]
          /\ (pc # "raised" /\ pc' = "raised" /\ disk' # disk) =>
                /\ result' = "ValueError"
                /\ \E link \in DOMAIN disk' :
                      /\ disk'[link] = Zero
                      /\ \A other \in DOMAIN disk' \ {link} :
                            other \in DOMAIN disk /\ disk'[other] = disk[other]
          /\ \A link \in DOMAIN handled' \ DOMAIN handled :
                IF link \in DOMAIN disk /\ disk[link] # Zero
                  THEN /\ handled'[link] = "already exists!"
                       /\ disk'[link] = disk[link]
                  ELSE handled'[link] = "Retrieving pageviews"
          /\ \A link \in DOMAIN disk :
                disk[link] # Zero => (link \in DOMAIN disk' /\ disk'[link] = disk[link])
    ]_vars

\* A run that followed a run ended by a checksum mismatch has fetched the
\* file that run left without content, has skipped a file that was there,
\* and another file is without content.
C27_Witness ==
    /\ call = "get_dumps"
    /\ \E link, stored, empty \in Hashed :
          /\ link \in DOMAIN handled /\ handled[link] = "Retrieving pageviews"
          /\ link \in DOMAIN disk /\ disk[link] = "counts"
          /\ stored \in DOMAIN handled /\ handled[stored] = "already exists!"
          /\ empty \in DOMAIN disk /\ disk[empty] = Zero

(***************************************************************************)
(* make_page_alters and make_user_alters: per user of a page, and per page *)
(* of a user, the number of revisions and the first and last timestamp.    *)
(***************************************************************************)
MaxAlters == 3

RECURSIVE WalkAlters(_, _, _, _)
\* for rev in revisions: a new key gets count 1 and the timestamp as both
\* min_timestamp and max_timestamp (and the ns, if the function copies
\* it); a known key gets count + 1 and the timestamp as max_timestamp.
WalkAlters(alters, revs, key, copied) ==
    IF revs = <<>>
      THEN alters
      ELSE LET rev == Head(revs)
               entry ==
                   IF rev[key] \notin DOMAIN alters
                     THEN [field \in {"count", "min_timestamp", "max_timestamp"}
                                         \cup copied |->
                              IF field = "count" THEN 1
                              ELSE IF field \in copied THEN rev[field]
                              ELSE rev.timestamp]
                     ELSE [alters[rev[key]] EXCEPT !.count = @ + 1,
                                                   !.max_timestamp = rev.timestamp]
           IN  WalkAlters([k \in DOMAIN alters \cup {rev[key]} |->
                              IF k = rev[key] THEN entry ELSE alters[k]],
                          Tail(revs), key, copied)

make_page_alters ==
    /\ call = "make_page_alters"
    /\ pc = "start"
    /\ result' = WalkAlters(EmptyDict, revisions, "user", {})
    /\ pc' = "done"
    /\ UNCHANGED <<call, args, net, iter>>

make_user_alters ==
    /\ call = "make_user_alters"
    /\ pc = "start"
    /\ result' = WalkAlters(EmptyDict, revisions, "title", {"ns"})
    /\ pc' = "done"
    /\ UNCHANGED <<call, args, net, iter>>

AlterRevisions == [timestamp : 1 .. MaxTime, user : Users, title : Pages, ns : {0}]

InitAlters ==
    /\ call \in {"make_page_alters", "make_user_alters"}
    /\ pc = "start"
    /\ alter_revisions_dict = EmptyDict
    /\ threshold = 0
    /\ hyperlink_dict = EmptyDict
    /\ categories_dict = EmptyDict
    /\ revisions \in SeqsUpTo(AlterRevisions, MaxAlters)
    /\ min_date = 0
    /\ max_date = 0
    /\ response = <<>>
    /\ ScraperIdle
    /\ net = EmptyGraph
    /\ iter = {}
    /\ result = <<>>

NextAlters ==
    \/ make_page_alters
    \/ make_user_alters

SpecAlters == InitAlters /\ [][NextAlters]_vars

\* The field of a revision the running function keys its result by.
AlterKey == IF call = "make_page_alters" THEN "user" ELSE "title"

\* The timestamps of the revisions with the key k.
StampsOf(k) ==
    {revisions[i].timestamp : i \in {j \in DOMAIN revisions : revisions[j][AlterKey] = k}}

\* C23: make_page_alters and make_user_alters return, for every key of the
\* revisions and for any order of the list, count = the number of the
\* revisions with the key, min_timestamp = their earliest and
\* max_timestamp = their latest timestamp; hence min_timestamp <=
\* max_timestamp.
C23_CountMinMax ==
    (call \in {"make_page_alters", "make_user_alters"} /\ Returned) =>
        /\ DOMAIN result = {revisions[i][AlterKey] : i \in DOMAIN revisions}
        /\ \A k \in DOMAIN result :
              /\ result[k].count =
                    Cardinality({i \in DOMAIN revisions : revisions[i][AlterKey] = k})
              /\ result[k].min_timestamp = Min(StampsOf(k))
              /\ result[k].max_timestamp = Max(StampsOf(k))
              /\ result[k].min_timestamp <= result[k].max_timestamp

CleanupLoops == {"threshold", "selfloops"}

\* C24: while the threshold pass or the self-loop pass of a shared-editing
\* builder is iterating the edges of the graph, the graph is not changed.
C24_NotMutatedWhileIterating ==
    [][(call \in SharedBuilders /\ pc \in CleanupLoops /\ iter # {}) =>
          net' = net]_vars

\* C24, amended: the two passes do remove edges while the iterator is
\* running, but the iterator walks a copy, so that each pass starts with
\* every edge of the graph, each step examines exactly one edge not yet
\* examined and removes at most that edge, the edges still to come are
\* still in the graph, and no step raises.
C24_EachEdgeExaminedOnce ==
    [][(call \in SharedBuilders) =>
        ( /\ pc' # "raised"
          /\ (pc' # pc /\ pc' \in CleanupLoops) => iter' = Edges(net')
          /\ (pc' = pc /\ pc \in CleanupLoops) =>
                \E e \in iter :
                    /\ iter' = iter \ {e}
                    /\ net' \in {net, remove_edge(net, e[1], e[2])}
                    /\ iter' \subseteq Edges(net') )
    ]_vars

\* The threshold pass has removed an edge and has edges still to examine.
C24_Witness ==
    /\ call = "make_shared_user_editing_network"
    /\ pc = "threshold"
    /\ iter # {}
    /\ Edges(net) # Edges(Accumulated)

\* The revisions of one page as far as the Users column reads them.
PageRevisions ==
    [pageid : {1}, timestamp : Stamps, size : {100}, username : Users]

\* The lists get_page_revisions hands over: rvdir newer, oldest first.
PageLists ==
    {revs \in SeqsUpTo(PageRevisions, MaxCounter) :
        \A i, j \in DOMAIN revs : i < j => revs[i].timestamp <= revs[j].timestamp}

InitUsers ==
    /\ call = "get_editing_dynamics2"
    /\ pc = "start"
    /\ alter_revisions_dict = EmptyDict
    /\ threshold = 0
    /\ hyperlink_dict = EmptyDict
    /\ categories_dict = EmptyDict
    /\ min_date \in WindowDays
    /\ max_date \in min_date .. MaxDay + 1
    /\ revisions \in PageLists
    /\ response = <<>>
    /\ ScraperIdle
    /\ net = EmptyGraph
    /\ iter = {}
    /\ result = <<>>

NextUsers == get_editing_dynamics2

SpecUsers == InitUsers /\ [][NextUsers]_vars

\* C28: for the revisions of one page normalized by adjacency_calcs,
\* unique_users_count never decreases from one position to the next, and
\* the Users series of user_counter never decreases from one date of the
\* window to a later one and never exceeds the number of distinct editors.
C28_UsersNonDecreasing ==
    (call = "get_editing_dynamics2" /\ pc = "done") =>
        /\ \A k \in 1 .. Len(revisions) - 1 :
              revisions[k].unique_users_count <= revisions[k + 1].unique_users_count
        /\ \A d, e \in DOMAIN result : d <= e => result[d].Users <= result[e].Users
        /\ \A d \in DOMAIN result :
              /\ result[d].Users >= 1
              /\ result[d].Users <=
                    Cardinality({revisions[k].username : k \in DOMAIN revisions})

\* The series has a day without a revision between two days with revisions,
\* it grows, and an editor came back on a later day.
C28_Witness ==
    /\ call = "get_editing_dynamics2"
    /\ pc = "done"
    /\ \E d \in DOMAIN result :
          /\ result[d].Article = 0
          /\ d - 1 \in DOMAIN result
          /\ d + 1 \in DOMAIN result
          /\ result[d - 1].Users < result[d + 1].Users
          /\ result[d].Users = result[d - 1].Users
    /\ \E j, k \in DOMAIN revisions :
          /\ j < k
          /\ revisions[j].username = revisions[k].username

=============================================================================
